---- MODULE Spec2Model ----
(***************************************************************************)
(* sniperBot: the mint dispatcher (controllers/mintController.js) and the  *)
(* four chain mint executors (mintSUI, mintBASE, mintBSC, mintSOL).        *)
(*                                                                         *)
(* One behaviour of the model is one invocation: either an HTTP request    *)
(* handled by handleMint, or a direct call of one executor.  Every await   *)
(* of a network call is one action; the outcome of the call is chosen by   *)
(* the environment.  The synchronous code that follows an await up to the  *)
(* next await is part of the same action.  SpecPlain runs handleMint with  *)
(* the executors that have no try/catch, SpecInterleaved runs two          *)
(* invocations of one executor in one process.                             *)
(***************************************************************************)
EXTENDS Integers, Sequences, FiniteSets, TLC

(***************************************************************************)
(* JavaScript values.                                                      *)
(***************************************************************************)
Undefined == [t |-> "undefined"]
Num(n) == [t |-> "number", v |-> n]
Str(s) == [t |-> "string", s |-> s]

\* a hash-valued field that evaluates to undefined
NoHash == "undefined"
\* the transaction hashes, signatures and digests the network hands out
NetHashes == {"0xDEAD", "0xBEEF"}

\* Number(s) for the sample strings; NaN is [nan |-> TRUE]
NaN == [nan |-> TRUE, v |-> 0]
Finite(n) == [nan |-> FALSE, v |-> n]
StringToNumber(s) ==
  CASE s = ""    -> Finite(0)
    [] s = "abc" -> NaN
    [] OTHER     -> NaN

ToNumber(x) ==
  CASE x.t = "number" -> Finite(x.v)
    [] x.t = "string" -> StringToNumber(x.s)
    [] OTHER          -> NaN

\* !x is FALSE
Truthy(x) ==
  CASE x.t = "undefined" -> FALSE
    [] x.t = "number"    -> x.v # 0
    [] x.t = "string"    -> x.s # ""
    [] OTHER             -> TRUE

\* x < n and x > n, as the abstract relational comparison computes them
LessThan(x, n) == LET a == ToNumber(x) IN ~a.nan /\ a.v < n
GreaterThan(x, n) == LET a == ToNumber(x) IN ~a.nan /\ a.v > n

(***************************************************************************)
(* Sample inputs.                                                          *)
(***************************************************************************)
\* sample private keys: text of the given length and shape, decoding to
\* `bytes` bytes
Key(len, shape, bytes) == [t |-> "string", s |-> shape, length |-> len, bytes |-> bytes]
kShort   == Key(10, "junk", 0)
kEvm     == Key(64, "hex", 32)
kSolHex  == Key(128, "hex", 64)
kSolArr  == Key(100, "array", 32)
kSolB58  == Key(88, "junk", 0)
PrivateKeys == {Undefined, kShort, kEvm, kSolHex, kSolArr, kSolB58}

aEvm == Str("0x5FbDB2315678afecb367f032d93F642f64180aa3")
aSol == Str("So11111111111111111111111111111111111111112")
aBad == Str("not-an-address")
ContractAddresses == {Undefined, aEvm, aSol, aBad}

CollectionIds == {Undefined, Str("abc123"), Str("xyz-1")}
MintStages == {Undefined, Str("public")}
MintQuantities == {Undefined, Num(-1), Num(0), Num(1), Str("abc"), Str("")}
\* mintSUI alone has an upper limit
SuiQuantities == MintQuantities \cup {Num(100), Num(101)}

\* collectionId.match(/^[a-fA-F0-9]+$/)
MatchesHex(c) == c.s \in {"abc123"}

\* ethers.isAddress(contractAddress)
isAddress(a) == a = aEvm

\* new PublicKey(contractAddress) does not throw
isPublicKey(a) == a = aSol

\* new ethers.Wallet(privateKey, provider) does not throw
isWalletKey(k) == k.s = "hex" /\ k.bytes = 32

(***************************************************************************)
(* Error messages and String.prototype.includes on them.                   *)
(***************************************************************************)
mFunds   == "insufficient funds for gas * price + value"
mRevert  == "execution reverted: nonce too low"
mNonce   == "nonce too low"
mOther   == "missing revert data"
mTimer   == "Transaction confirmation timeout"
mNetTo   == "request timeout"
mRate    == "429 Too Many Requests"
gInsuff  == "insufficient gas balance"
gMulti   == "collection not found: unauthorized"
gOther   == "internal error"
gSold    == "sold out: stage not active"

\* the substrings, among those the program searches for, that a message has
Contains(m) ==
  CASE m = mFunds  -> {"insufficient funds", "insufficient"}
    [] m = mRevert -> {"execution reverted", "nonce too low", "nonce"}
    [] m = mNonce  -> {"nonce too low", "nonce"}
    [] m = mTimer  -> {"timeout"}
    [] m = mNetTo  -> {"timeout"}
    [] m = mRate   -> {"429"}
    [] m = "blockhash not found" -> {"blockhash not found"}
    [] m = gInsuff -> {"insufficient"}
    [] m = gMulti  -> {"not found", "unauthorized"}
    [] m = gSold   -> {"sold out", "not active"}
    [] OTHER       -> {}

\* a comparison of the whole message in place of the search for a substring
IncludesWhole(m, p) == m = p

\* message.includes(p)
Includes(m, p) == p \in Contains(m)

Err(code, message) == [code |-> code, message |-> message]
\* the message of a rejection value that is not an Error, and the message of
\* the TypeError that reading a method of it raises
NoMessage == "undefined"
mTypeError == "Cannot read properties of undefined (reading 'includes')"
NoError == [code |-> "", message |-> ""]

\* a failure MintResult
Fail(code, msg) == [success |-> FALSE, msg |-> msg, code |-> code]
NoResult == [pending |-> TRUE]

(***************************************************************************)
(* State.                                                                  *)
(***************************************************************************)
VARIABLES
  entry,      \* "http": handleMint(req, res); "direct": an executor is called
  chain,      \* req.body.chain (http) or the name of the executor (direct)
  req,        \* mintData: the request fields other than chain
  env,        \* process.env: which of the three SUI settings are set
  exec,       \* the executor that is running, "none" before dispatch
  pc,         \* position of the invocation
  calls,      \* the network calls issued so far, oldest first
  result,     \* the value the executor returned
  http,       \* the response handleMint sent
  attempt,    \* mintSUI: retry loop counter
  response,   \* mintSUI: the response of the indexer
  rpcUrl,     \* endpoint loop index
  provider,   \* index of the connected endpoint, 0 if none
  func,       \* candidate loop index
  gasPrice,   \* mintBSC: gas price, in gwei
  gasEstimate,\* mintBSC: gas estimate of the current candidate
  tx,         \* the transaction returned by the submission
  lastError,  \* last error kept by the loops
  sendErrors, \* messages of the errors thrown by submission calls so far
  other,      \* a second invocation, suspended at an await while this one runs
  observed    \* what the target query and the confirmation answered

vars == <<entry, chain, req, env, exec, pc, calls, result, http, attempt,
          response, rpcUrl, provider, func, gasPrice, gasEstimate, tx, lastError,
          sendErrors, other, observed>>

inputs == <<entry, chain, req, env>>
locals == <<attempt, response, rpcUrl, provider, func, gasPrice, gasEstimate, tx,
            lastError, sendErrors>>

NoTx == [hash |-> NoHash, func |-> 0, gasLimit |-> 0, gasPrice |-> 0]
NoResponse == [status |-> 0]

\* nothing was asked yet
NotObserved == [target |-> "none", status |-> "none"]

\* no second invocation
NoInvocation == [pc |-> "absent"]

Call(op, i, ok) == [op |-> op, i |-> i, ok |-> ok]

Executors == {"SUI", "BASE", "BSC", "SOL"}
\* mintSUI, mintBSC and mintBASE are called by handleMint; mintSOL is called
\* by nothing in the repository (its require is commented out), so it is the
\* executor that is called directly
DirectExecutors == {"SOL"}

\* chain tags of the sample requests; a body without chain has Undefined
ChainStrings == {"SUI", "sui", "Sui", "base", "BSC", "SOL", "sol", "ETH", "eth", ""}
ChainTags == {Str(s) : s \in ChainStrings} \cup {Undefined}

\* a dispatch on the tag as it was sent
toUpperCaseOmitted(s) == s
\* chain.toUpperCase()
toUpperCase(s) ==
  CASE s \in {"SUI", "sui", "Sui"}  -> "SUI"
    [] s \in {"BASE", "base"} -> "BASE"
    [] s \in {"BSC", "bsc"}   -> "BSC"
    [] s \in {"SOL", "sol"}   -> "SOL"
    [] s \in {"ETH", "eth"}   -> "ETH"
    [] OTHER                  -> s

Envs == [INDEXER_ENDPOINT : BOOLEAN, TRADEPORT_API_USER : BOOLEAN,
         TRADEPORT_API_KEY : BOOLEAN]
FullEnv == [INDEXER_ENDPOINT |-> TRUE, TRADEPORT_API_USER |-> TRUE,
            TRADEPORT_API_KEY |-> TRUE]

\* the request fields an executor reads; the others are not looked at
Requests(e) ==
  IF e = "SUI"
  THEN [privateKey : PrivateKeys, collectionId : CollectionIds,
        mintStage : MintStages, contractAddress : {Undefined},
        mintQuantity : SuiQuantities]
  ELSE [privateKey : PrivateKeys, collectionId : {Undefined},
        mintStage : {Undefined}, contractAddress : ContractAddresses,
        mintQuantity : MintQuantities]

\* the executor a chain value names, "none" if it names no executor
Target(c) == IF c.t = "string" THEN toUpperCase(c.s) ELSE "none"

Init ==
  /\ entry \in {"http", "direct"}
  /\ chain \in IF entry = "http" THEN ChainTags ELSE {Str(e) : e \in DirectExecutors}
  /\ req \in Requests(Target(chain))
  /\ env \in IF Target(chain) = "SUI" THEN Envs ELSE {FullEnv}
  /\ exec = "none"
  /\ pc = "start"
  /\ calls = <<>>
  /\ result = NoResult
  /\ http = NoResponse
  /\ attempt = 0
  /\ response = NoResponse
  /\ rpcUrl = 0
  /\ provider = 0
  /\ func = 0
  /\ gasPrice = 0
  /\ gasEstimate = 0
  /\ tx = NoTx
  /\ lastError = NoError
  /\ sendErrors = {}
  /\ other = NoInvocation
  /\ observed = NotObserved

\* the calls that go to the network (a backoff sleep does not)
NetworkCalls == SelectSeq(calls, LAMBDA c : c.op # "setTimeout")

\* an exception that leaves the executor: its promise rejects
Thrown(message) == [thrown |-> TRUE, error |-> message]

\* the executor settles with r: it returns r, or rejects when r is Thrown
Return(r) == /\ result' = r
             /\ pc' = IF "thrown" \in DOMAIN r THEN "thrown" ELSE "done"

(***************************************************************************)
(* controllers/mintController.js                                           *)
(***************************************************************************)
\* a spread in which the properties of a win
SpreadFirstWins(a, b) ==
  [f \in DOMAIN a \cup DOMAIN b |-> IF f \in DOMAIN a THEN a[f] ELSE b[f]]
\* { ...a, ...b }
Spread(a, b) ==
  [f \in DOMAIN a \cup DOMAIN b |-> IF f \in DOMAIN b THEN b[f] ELSE a[f]]

\* JSON.stringify leaves out the properties whose value is undefined
Json(body) ==
  [f \in {g \in DOMAIN body : ~(g = "txHash" /\ body[g] = NoHash)} |-> body[f]]

\* res.status(status).json(body)
Respond(status, body) == [status |-> status, body |-> Json(body)]

\* a catch block that answers without the message of the exception
MintingErrorNoDetail(message) ==
  Respond(500, [success |-> FALSE, msg |-> "Minting error", error |-> NoMessage])
\* the catch block of handleMint
MintingError(message) ==
  Respond(500, [success |-> FALSE, msg |-> "Minting error", error |-> message])

\* the default branch without res.status(400)
UnsupportedChainNoStatus == Respond(200, [success |-> FALSE, msg |-> "Unsupported chain"])

\* the response of the default branch
UnsupportedChain == Respond(400, [success |-> FALSE, msg |-> "Unsupported chain"])

\* a SOL branch that reports a mint
SolStubMinted == [success |-> TRUE, msg |-> "SOL mint not yet implemented"]
\* the result of the SOL branch: mintSOL is not called
SolStub == [success |-> FALSE, msg |-> "SOL mint not yet implemented"]

\* handleMint up to the call of an executor, or to its response when no
\* executor is called
handleMint ==
  /\ entry = "http"
  /\ pc = "start"
  /\ IF chain.t # "string"
     THEN \* chain.toUpperCase() throws a TypeError inside the try block
          /\ http' = MintingError("Cannot read properties of undefined (reading 'toUpperCase')")
          /\ pc' = "responded"
          /\ UNCHANGED <<exec, result>>
     ELSE CASE toUpperCase(chain.s) \in {"SUI", "BSC", "BASE"} ->
                 /\ exec' = toUpperCase(chain.s)
                 /\ pc' = "invoke"
                 /\ UNCHANGED <<result, http>>
            [] toUpperCase(chain.s) = "SOL" ->
                 /\ result' = SolStub
                 /\ http' = Respond(200, Spread([success |-> TRUE], result'))
                 /\ pc' = "responded"
                 /\ UNCHANGED exec
            [] OTHER ->
                 /\ http' = UnsupportedChain
                 /\ pc' = "responded"
                 /\ UNCHANGED <<exec, result>>
  /\ UNCHANGED <<inputs, other, observed, calls, locals>>

\* handleMint after the awaited executor returned: part of the step in which
\* the executor returns
handleMintRespond ==
  http' = CASE entry = "http" /\ pc' = "done" ->
                 Respond(200, Spread([success |-> TRUE], result'))
            [] entry = "http" /\ pc' = "thrown" ->
                 MintingError(result'.error)
            [] OTHER -> http

\* an executor is called directly with the request fields
Invoke ==
  /\ entry = "direct"
  /\ pc = "start"
  /\ exec' = chain.s
  /\ pc' = "invoke"
  /\ UNCHANGED <<inputs, other, observed, calls, result, http, locals>>

(***************************************************************************)
(* services/mintSUI.js                                                     *)
(***************************************************************************)
maxRetries == 3

\* a loop whose counter stays where it is
NextAttemptSame(k) == k
\* attempt++ of the retry loop
NextAttempt(k) == k + 1

\* a delay that grows with the square of the attempt
BackoffQuadratic(k) == 1000 * k * k
\* the delay after attempt k failed, in ms
Backoff(k) == 1000 * k

\* a check that reads no environment variable
SuiConfigUnchecked(e) == NoResult
\* the check of the environment variables; NoResult when all are set
SuiConfig(e) ==
  CASE ~e.INDEXER_ENDPOINT ->
         Fail("MISSING_INDEXER_ENDPOINT", "SUI indexer endpoint not configured")
    [] ~e.TRADEPORT_API_USER \/ ~e.TRADEPORT_API_KEY ->
         Fail("MISSING_API_CREDENTIALS", "TradePort API credentials not configured")
    [] OTHER -> NoResult

\* the checks made before the request is built; NoResult when all pass
SuiValidate(r, e) ==
  CASE ~Truthy(r.privateKey) ->
         Fail("MISSING_PRIVATE_KEY", "Private key is required")
    [] ~Truthy(r.collectionId) ->
         Fail("MISSING_COLLECTION_ID", "Collection ID is required")
    [] ~Truthy(r.mintStage) ->
         Fail("MISSING_MINT_STAGE", "Mint stage is required")
    [] ~Truthy(r.mintQuantity) \/ LessThan(r.mintQuantity, 1) ->
         Fail("INVALID_QUANTITY", "Mint quantity must be at least 1")
    [] GreaterThan(r.mintQuantity, 100) ->
         Fail("QUANTITY_TOO_HIGH", "Mint quantity cannot exceed 100")
    [] r.privateKey.length < 32 ->
         Fail("INVALID_PRIVATE_KEY_LENGTH", "Private key appears to be too short")
    [] ~MatchesHex(r.collectionId) ->
         Fail("INVALID_COLLECTION_ID_FORMAT", "Invalid collection ID format")
    [] OTHER -> SuiConfig(e)

\* a rule list with the rules for "not found" and "unauthorized" exchanged
GraphQLErrorExchanged(message) ==
  CASE Includes(message, "insufficient") ->
         Fail("INSUFFICIENT_BALANCE", "Insufficient balance for minting")
    [] Includes(message, "unauthorized") ->
         Fail("MINT_UNAUTHORIZED", "Unauthorized to mint from this collection")
    [] Includes(message, "not found") ->
         Fail("COLLECTION_NOT_FOUND", "Collection not found or invalid collection ID")
    [] Includes(message, "sold out") \/ Includes(message, "exceeds") ->
         Fail("MINT_SOLD_OUT", "Mint quantity exceeds available supply")
    [] Includes(message, "not active") ->
         Fail("MINT_STAGE_INACTIVE", "Mint stage is not currently active")
    [] OTHER ->
         Fail("GRAPHQL_ERROR", "GraphQL error occurred")

\* the code given to the first GraphQL error
GraphQLError(message) ==
  CASE Includes(message, "insufficient") ->
         Fail("INSUFFICIENT_BALANCE", "Insufficient balance for minting")
    [] Includes(message, "not found") ->
         Fail("COLLECTION_NOT_FOUND", "Collection not found or invalid collection ID")
    [] Includes(message, "unauthorized") ->
         Fail("MINT_UNAUTHORIZED", "Unauthorized to mint from this collection")
    [] Includes(message, "sold out") \/ Includes(message, "exceeds") ->
         Fail("MINT_SOLD_OUT", "Mint quantity exceeds available supply")
    [] Includes(message, "not active") ->
         Fail("MINT_STAGE_INACTIVE", "Mint stage is not currently active")
    [] OTHER ->
         Fail("GRAPHQL_ERROR", "GraphQL error occurred")

WithDetails(r, d) == Spread(r, [details |-> d])

\* response.data of the indexer
NoMintError == [message |-> "", code |-> ""]
Data(truthy, errors, hasMintNFT, success, digest, error) ==
  [truthy |-> truthy, errors |-> errors, hasMintNFT |-> hasMintNFT,
   success |-> success, transactionBlockDigest |-> digest, error |-> error]
EmptyData == Data(FALSE, <<>>, FALSE, FALSE, NoHash, NoMintError)

\* the success result with the digest under the key the other executors use
MintSuccessTxHash(mintResult, r) ==
  [success |-> TRUE, msg |-> "Successfully minted NFT(s)",
   code |-> "MINT_SUCCESS",
   txHash |-> mintResult.transactionBlockDigest,
   quantity |-> r.mintQuantity, collectionId |-> r.collectionId]

\* the result of a mint the indexer reports as done
MintSuccess(mintResult, r) ==
  [success |-> TRUE, msg |-> "Successfully minted NFT(s)",
   code |-> "MINT_SUCCESS",
   transactionHash |-> mintResult.transactionBlockDigest,
   quantity |-> r.mintQuantity, collectionId |-> r.collectionId]

\* the result for a response that was received
SuiInterpret(resp, r) ==
  LET data == resp.data
      mintResult == data
  IN CASE resp.status >= 400 ->
            (CASE resp.status = 401 ->
                    Fail("INVALID_CREDENTIALS", "Invalid API credentials")
               [] resp.status = 403 ->
                    Fail("ACCESS_FORBIDDEN", "Access forbidden. Check API permissions.")
               [] resp.status = 404 ->
                    Fail("ENDPOINT_NOT_FOUND", "SUI indexer endpoint not found")
               [] resp.status = 429 ->
                    Fail("RATE_LIMITED", "Rate limited by SUI API. Please try again later.")
               [] OTHER ->
                    WithDetails(Fail("HTTP_ERROR", "SUI API error: HTTP"), data))
       [] ~data.truthy ->
            Fail("EMPTY_RESPONSE", "Empty response from SUI API")
       [] Len(data.errors) > 0 ->
            WithDetails(GraphQLError(data.errors[1].message), data.errors[1].message)
       [] ~data.hasMintNFT ->
            Fail("INVALID_RESPONSE_STRUCTURE", "Invalid response structure from SUI API")
       [] ~mintResult.success ->
            WithDetails(Fail(IF mintResult.error.code # "" THEN mintResult.error.code
                                                           ELSE "MINT_FAILED",
                             "Mint failed"),
                        mintResult.error)
       [] mintResult.transactionBlockDigest \notin {NoHash, ""} ->
            MintSuccess(mintResult, r)
       [] OTHER ->
            Fail("MISSING_TRANSACTION_HASH", "Mint completed but no transaction hash returned")

\* the responses and the transport errors the indexer request can end with
SuiStatuses == {400, 401, 403, 404, 429}
SuiResponses ==
  {[status |-> s, data |-> EmptyData] : s \in SuiStatuses}
  \cup {[status |-> 200, data |-> d] : d \in
         {EmptyData,
          Data(TRUE, <<>>, FALSE, FALSE, NoHash, NoMintError),
          Data(TRUE, <<>>, TRUE, FALSE, NoHash, NoMintError),
          Data(TRUE, <<>>, TRUE, FALSE, NoHash,
               [message |-> "stage closed", code |-> "STAGE_CLOSED"]),
          Data(TRUE, <<>>, TRUE, FALSE, NoHash,
               [message |-> "stage closed", code |-> ""]),
          Data(TRUE, <<>>, TRUE, TRUE, NoHash, NoMintError),
          Data(TRUE, <<>>, TRUE, TRUE, "", NoMintError)}
         \cup {Data(TRUE, <<>>, TRUE, TRUE, h, NoMintError) : h \in NetHashes}
         \cup {Data(TRUE, <<[message |-> m]>>, FALSE, FALSE, NoHash, NoMintError) :
                 m \in {gInsuff, gMulti, gSold, gOther}}
         \cup {Data(TRUE, <<[message |-> gOther]>>, TRUE, TRUE, "0xDEAD", NoMintError)}}
SuiErrors == {Err(c, "connect failed") :
                c \in {"ECONNABORTED", "ENOTFOUND", "ECONNREFUSED", "ERR_BAD_RESPONSE"}}

\* mintSUI from its call to the first request
mintSUI_validate ==
  /\ exec = "SUI"
  /\ pc = "invoke"
  /\ IF SuiValidate(req, env) # NoResult
     THEN /\ Return(SuiValidate(req, env))
          /\ UNCHANGED attempt
     ELSE /\ attempt' = 1
          /\ pc' = "request"
          /\ UNCHANGED result
  /\ UNCHANGED <<inputs, other, observed, exec, calls, response, rpcUrl, provider, func, gasPrice,
                 gasEstimate, tx, lastError, sendErrors>>
  /\ handleMintRespond

\* await axios(requestConfig) answers: the loop is left and the response read
mintSUI_response ==
  /\ exec = "SUI"
  /\ pc = "request"
  /\ \E r \in SuiResponses :
       /\ calls' = Append(calls, Call("axios", attempt, TRUE))
       /\ response' = r
       /\ Return(SuiInterpret(r, req))
  /\ UNCHANGED <<inputs, other, observed, exec, attempt, rpcUrl, provider, func, gasPrice,
                 gasEstimate, tx, lastError, sendErrors>>
  /\ handleMintRespond

\* await axios(requestConfig) throws
mintSUI_networkError ==
  /\ exec = "SUI"
  /\ pc = "request"
  /\ \E networkError \in SuiErrors :
       /\ calls' = Append(calls, Call("axios", attempt, FALSE))
       /\ lastError' = networkError
       /\ IF attempt = maxRetries
          THEN Return(
                 CASE networkError.code = "ECONNABORTED" ->
                        Fail("REQUEST_TIMEOUT", "Request timed out. SUI network might be congested.")
                   [] networkError.code = "ENOTFOUND" ->
                        Fail("NETWORK_UNREACHABLE", "Cannot reach SUI indexer endpoint. Check network connection.")
                   [] networkError.code = "ECONNREFUSED" ->
                        Fail("CONNECTION_REFUSED", "SUI indexer endpoint refused connection.")
                   [] OTHER ->
                        WithDetails(Fail("CONNECTION_FAILED", "Failed to connect to SUI network after multiple attempts"),
                                    networkError.message))
          ELSE /\ pc' = "backoff"
               /\ UNCHANGED result
  /\ UNCHANGED <<inputs, other, observed, exec, attempt, response, rpcUrl, provider, func, gasPrice,
                 gasEstimate, tx, sendErrors>>
  /\ handleMintRespond

\* the wait before the next attempt
mintSUI_backoff ==
  /\ exec = "SUI"
  /\ pc = "backoff"
  /\ calls' = Append(calls, Call("setTimeout", Backoff(attempt), TRUE))
  /\ attempt' = NextAttempt(attempt)
  /\ pc' = "request"
  /\ UNCHANGED <<inputs, other, observed, exec, result, response, rpcUrl, provider, func, gasPrice,
                 gasEstimate, tx, lastError, sendErrors>>
  /\ handleMintRespond

(***************************************************************************)
(* services/mintBASE.js and services/mintBSC.js.  The two files differ in  *)
(* their endpoint list, minimum balance, candidate list, gas settings and  *)
(* message wording; the steps they share are written once with the         *)
(* executor as parameter (message wording is that of mintBASE).            *)
(***************************************************************************)
\* balances the network reports, in units of 0.0001 of the native coin: an
\* empty wallet, and for each executor the balances next to its minimum
Balances(e) ==
  CASE e = "BASE" -> {0, 9, 10}
    [] e = "BSC"  -> {0, 49, 50}
    [] e = "SOL"  -> {0, 99, 100}

\* gas estimates the network reports
GasEstimates == {60000, 120000}

\* number of entries of rpcUrls
rpcUrlsBASE == 3
rpcUrlsBSC == 4

rpcUrls(e) == IF e = "BASE" THEN rpcUrlsBASE ELSE rpcUrlsBSC

\* a loop that goes through the list from its end
NextEndpointBackwards(n) == IF n = 1 THEN 3 ELSE n - 1
\* for (const rpcUrl of rpcUrls): the entry after entry n
NextEndpoint(n) == n + 1

\* a loop that probes one endpoint more than the list has
LastEndpointOffByOne(n) == rpcUrl = n + 1
\* for (const rpcUrl of rpcUrls): the endpoint being probed is the last of n
LastEndpoint(n) == rpcUrl = n

\* 0.001 ETH and 0.005 BNB, in units of 0.0001 of the coin
minBalanceBASE == 10
minBalanceBSC == 50
\* the minimum of mintBASE used by both executors
minBalanceCopied(e) == minBalanceBASE
\* the minimum balance of the executor
minBalance(e) == IF e = "BASE" THEN minBalanceBASE ELSE minBalanceBSC

Candidate(name, args) == [name |-> name, args |-> args]
mintFunctionsBASE ==
  << Candidate("mint", "quantity"), Candidate("publicMint", "quantity"),
     Candidate("mint", "address,quantity"), Candidate("mintTo", "address,quantity") >>
mintFunctionsBSC ==
  << Candidate("mint", "quantity"), Candidate("publicMint", "quantity"),
     Candidate("batchMint", "quantity"), Candidate("mint", "address,quantity"),
     Candidate("mintTo", "address,quantity") >>
mintFunctions(e) == IF e = "BASE" THEN mintFunctionsBASE ELSE mintFunctionsBSC

\* ethers.parseUnits("20", "gwei"), ("5", "gwei"); gas limits
gasPriceBASE == 20
gasLimitBASE == 500000
gasPriceFallbackBSC == 5
gasBufferBSC == 50000
gasLimitFixedBSC == 300000
\* a fee the network reports, in gwei; 0 stands for a null feeData.gasPrice
FeeDataGasPrices == {0, 3}

\* the validation with the quantity test reduced to mintQuantity < 1
EvmValidateQuantityBelowOne(r) ==
  CASE ~Truthy(r.privateKey) ->
         Fail("MISSING_PRIVATE_KEY", "Private key is required")
    [] ~Truthy(r.contractAddress) ->
         Fail("MISSING_CONTRACT_ADDRESS", "Contract address is required")
    [] LessThan(r.mintQuantity, 1) ->
         Fail("INVALID_QUANTITY", "Mint quantity must be at least 1")
    [] ~isAddress(r.contractAddress) ->
         Fail("INVALID_ADDRESS_FORMAT", "Invalid contract address format")
    [] OTHER -> NoResult

\* input validation of mintBASE and mintBSC
EvmValidate(r) ==
  CASE ~Truthy(r.privateKey) ->
         Fail("MISSING_PRIVATE_KEY", "Private key is required")
    [] ~Truthy(r.contractAddress) ->
         Fail("MISSING_CONTRACT_ADDRESS", "Contract address is required")
    [] ~Truthy(r.mintQuantity) \/ LessThan(r.mintQuantity, 1) ->
         Fail("INVALID_QUANTITY", "Mint quantity must be at least 1")
    [] ~isAddress(r.contractAddress) ->
         Fail("INVALID_ADDRESS_FORMAT", "Invalid contract address format")
    [] OTHER -> NoResult

\* the result when the candidate loop ended without a transaction
BaseNoTx(err) ==
  LET errorMsg == err.message
  IN CASE Includes(errorMsg, "insufficient funds") ->
            Fail("INSUFFICIENT_FUNDS", "Insufficient funds for transaction + gas fees")
       [] Includes(errorMsg, "execution reverted") ->
            Fail("TRANSACTION_REVERTED", "Transaction reverted")
       [] Includes(errorMsg, "nonce too low") ->
            Fail("NONCE_ERROR", "Transaction nonce error. Please try again.")
       [] Includes(errorMsg, "replacement transaction underpriced") ->
            Fail("GAS_PRICE_LOW", "Gas price too low. Please try again with higher gas.")
       [] Includes(errorMsg, "intrinsic gas too low") ->
            Fail("GAS_LIMIT_LOW", "Gas limit too low for this transaction")
       [] OTHER ->
            Fail("MINT_FUNCTION_FAILED", "No compatible mint function found or all mint attempts failed")

BscNoTx(err) ==
  LET errorMsg == err.message
  IN CASE Includes(errorMsg, "insufficient funds") ->
            Fail("INSUFFICIENT_FUNDS", "Insufficient BNB for transaction + gas fees")
       [] Includes(errorMsg, "execution reverted") ->
            Fail("TRANSACTION_REVERTED", "Transaction reverted")
       [] Includes(errorMsg, "nonce too low") ->
            Fail("NONCE_ERROR", "Transaction nonce error. Please try again.")
       [] Includes(errorMsg, "replacement transaction underpriced") ->
            Fail("GAS_PRICE_LOW", "Gas price too low. Please try again.")
       [] Includes(errorMsg, "intrinsic gas too low") ->
            Fail("GAS_LIMIT_LOW", "Gas limit too low for this transaction")
       [] Includes(errorMsg, "max fee per gas less than block base fee") ->
            Fail("GAS_FEE_TOO_LOW", "Gas fee too low for current network conditions")
       [] OTHER ->
            Fail("MINT_FUNCTION_FAILED", "No compatible mint function found or all mint attempts failed")

\* an outer catch block that rethrows what it does not recognise
EvmCatchRethrow(err) ==
  LET errorMsg == err.message
  IN CASE err.code = "NETWORK_ERROR" ->
            Fail("NETWORK_ERROR", "Network connection error. Please check your internet and try again.")
       [] err.code = "TIMEOUT" ->
            Fail("TIMEOUT", "Request timed out. Network might be congested.")
       [] Includes(errorMsg, "insufficient funds") ->
            Fail("INSUFFICIENT_FUNDS", "Insufficient funds to cover transaction and gas fees")
       [] OTHER -> Thrown(err.message)

\* the outer catch block of mintBASE and mintBSC
EvmCatch(err) ==
  LET errorMsg == err.message
  IN CASE err.code = "NETWORK_ERROR" ->
            Fail("NETWORK_ERROR", "Network connection error. Please check your internet and try again.")
       [] err.code = "TIMEOUT" ->
            Fail("TIMEOUT", "Request timed out. Network might be congested.")
       [] Includes(errorMsg, "insufficient funds") ->
            Fail("INSUFFICIENT_FUNDS", "Insufficient funds to cover transaction and gas fees")
       [] Includes(errorMsg, "invalid address") \/ Includes(errorMsg, "invalid contract") ->
            Fail("INVALID_CONTRACT", "Invalid or non-existent contract address")
       [] Includes(errorMsg, "gas required exceeds allowance") ->
            Fail("GAS_LIMIT_EXCEEDED", "Transaction requires more gas than available")
       [] Includes(errorMsg, "nonce") ->
            Fail("NONCE_ERROR", "Transaction nonce error. Please try again.")
       [] Includes(errorMsg, "429") \/ Includes(errorMsg, "rate limit") ->
            Fail("RATE_LIMITED", "Rate limited by RPC provider. Please try again in a moment.")
       [] OTHER ->
            WithDetails(Fail("UNKNOWN_ERROR", "Transaction failed. Please verify your inputs and try again."),
                        err.message)

\* the error estimateGas rejects with when the call would revert
GasErrors == {Err("CALL_EXCEPTION", mRevert)}
\* errors a submission throws, and errors tx.wait() rejects with
SendErrors == {Err("UNKNOWN_ERROR", m) : m \in {mFunds, mRevert, mOther}}
WaitErrors == {Err("NETWORK_ERROR", mOther), Err("TIMEOUT", mNetTo),
               Err("CALL_EXCEPTION", mRevert), Err("CALL_EXCEPTION", mOther),
               Err("", NoMessage)}

\* the receipts tx.wait() resolves with; a receipt that has no property
\* transactionHash (it is named hash in ethers v6) has hasTransactionHash
\* FALSE, and reading the property gives undefined
Receipts == [status : {0, 1}, hasTransactionHash : BOOLEAN,
             gasUsed : {"21000"}, blockNumber : {7}]

\* from the call of the executor to the first liveness probe
EvmInvoke ==
  /\ exec \in {"BASE", "BSC"}
  /\ pc = "invoke"
  /\ IF EvmValidate(req) # NoResult
     THEN /\ Return(EvmValidate(req))
          /\ UNCHANGED rpcUrl
     ELSE /\ rpcUrl' = 1
          /\ pc' = "probe"
          /\ UNCHANGED result
  /\ UNCHANGED <<inputs, other, observed, exec, calls, attempt, response, provider, func, gasPrice,
                 gasEstimate, tx, lastError, sendErrors>>
  /\ handleMintRespond

\* await provider.getNetwork() on the endpoint rpcUrl; on success the wallet
\* is created and the balance query issued
EvmProbe ==
  /\ exec \in {"BASE", "BSC"}
  /\ pc = "probe"
  /\ \E ok \in BOOLEAN :
       /\ calls' = Append(calls, Call("getNetwork", rpcUrl, ok))
       /\ IF ok
          THEN /\ provider' = rpcUrl
               /\ UNCHANGED rpcUrl
               /\ IF ~isWalletKey(req.privateKey)
                  THEN Return(Fail("INVALID_PRIVATE_KEY", "Invalid private key format"))
                  ELSE /\ pc' = "balance"
                       /\ UNCHANGED result
          ELSE /\ UNCHANGED provider
               /\ IF LastEndpoint(rpcUrls(exec))
                  THEN /\ Return(Fail("RPC_CONNECTION_FAILED",
                                      "Unable to connect to network. All RPC endpoints are down."))
                       /\ UNCHANGED rpcUrl
                  ELSE /\ rpcUrl' = NextEndpoint(rpcUrl)
                       /\ UNCHANGED <<pc, result>>
  /\ UNCHANGED <<inputs, other, observed, exec, attempt, response, func, gasPrice, gasEstimate, tx,
                 lastError, sendErrors>>
  /\ handleMintRespond

\* a balance step that goes on when the query throws
EvmBalanceIgnoreFailure ==
  /\ exec \in {"BASE", "BSC"}
  /\ pc = "balance"
  /\ \/ /\ calls' = Append(calls, Call("getBalance", provider, FALSE))
        /\ pc' = "getCode"
        /\ UNCHANGED result
     \/ \E balance \in Balances(exec) :
          /\ calls' = Append(calls, Call("getBalance", balance, TRUE))
          /\ IF balance < minBalance(exec)
             THEN Return(Fail("INSUFFICIENT_BALANCE", "Insufficient balance"))
             ELSE /\ pc' = "getCode"
                  /\ UNCHANGED result
  /\ UNCHANGED <<inputs, other, observed, exec, locals>>
  /\ handleMintRespond

\* await wallet.provider.getBalance(wallet.address), then the contract
\* instance and the code query
EvmBalance ==
  /\ exec \in {"BASE", "BSC"}
  /\ pc = "balance"
  /\ \/ /\ calls' = Append(calls, Call("getBalance", provider, FALSE))
        /\ Return(Fail("BALANCE_CHECK_FAILED", "Failed to check wallet balance"))
     \/ \E balance \in Balances(exec) :
          /\ calls' = Append(calls, Call("getBalance", balance, TRUE))
          /\ IF balance < minBalance(exec)
             THEN Return(Fail("INSUFFICIENT_BALANCE", "Insufficient balance"))
             ELSE /\ pc' = "getCode"
                  /\ UNCHANGED result
  /\ UNCHANGED <<inputs, other, observed, exec, locals>>
  /\ handleMintRespond

\* a test that takes every answer for deployed code
NoCodeNever(code) == FALSE
\* code === "0x"
NoCode(code) == code = "0x"

\* await provider.getCode(contractAddress); mintBSC then asks for the fee
\* data, mintBASE enters the candidate loop
EvmGetCode ==
  /\ exec \in {"BASE", "BSC"}
  /\ pc = "getCode"
  /\ \/ /\ calls' = Append(calls, Call("getCode", provider, FALSE))
        /\ Return(Fail("CONTRACT_VERIFICATION_FAILED", "Failed to verify contract existence"))
        /\ UNCHANGED <<func, observed>>
     \/ \E code \in {"0x", "0x6080"} :
          /\ calls' = Append(calls, Call("getCode", provider, TRUE))
          /\ observed' = [observed EXCEPT !.target = IF code = "0x" THEN "absent" ELSE "present"]
          /\ IF NoCode(code)
             THEN /\ Return(Fail("CONTRACT_NOT_FOUND", "Contract not found at the provided address"))
                  /\ UNCHANGED func
             ELSE /\ pc' = IF exec = "BSC" THEN "feeData" ELSE "estimate"
                  /\ func' = IF exec = "BSC" THEN func ELSE 1
                  /\ UNCHANGED result
  /\ UNCHANGED <<inputs, other, exec, attempt, response, rpcUrl, provider, gasPrice,
                 gasEstimate, tx, lastError, sendErrors>>
  /\ handleMintRespond

\* `continue` of the candidate loop with lastError = err: the next candidate,
\* or the end of the loop without a transaction
Continue(e, err) ==
  IF func = Len(mintFunctions(e))
  THEN /\ Return(IF e = "BASE" THEN BaseNoTx(err) ELSE BscNoTx(err))
       /\ UNCHANGED func
  ELSE /\ func' = func + 1
       /\ pc' = "estimate"
       /\ UNCHANGED result

\* a test that takes every receipt as one of a transaction that went through
ReceiptFailedNever(receipt) == FALSE
\* receipt.status === 0
ReceiptFailed(receipt) == receipt.status = 0

\* await Promise.race([tx.wait(), timeout]) and the rest of the executor
EvmWait ==
  /\ exec \in {"BASE", "BSC"}
  /\ pc = "wait"
  /\ \/ \E receipt \in Receipts :
          /\ calls' = Append(calls, Call("wait", func, TRUE))
          /\ observed' = [observed EXCEPT !.status =
                            IF receipt.status = 0 THEN "failed" ELSE "ok"]
          /\ IF ReceiptFailed(receipt)
             THEN Return(Fail("TRANSACTION_FAILED", "Transaction failed during execution"))
             ELSE Return([success |-> TRUE,
                          txHash |-> IF receipt.hasTransactionHash
                                     THEN tx.hash ELSE NoHash,
                          gasUsed |-> receipt.gasUsed,
                          blockNumber |-> receipt.blockNumber])
     \/ \* the 300000 ms timer rejects first
        /\ calls' = Append(calls, Call("waitTimeout", func, FALSE))
        /\ Return(Spread(Fail("CONFIRMATION_TIMEOUT",
                              "Transaction sent but confirmation timed out. Check transaction status manually."),
                         [txHash |-> tx.hash]))
        /\ UNCHANGED observed
     \/ \E confirmError \in WaitErrors :
          /\ calls' = Append(calls, Call("wait", func, FALSE))
          /\ UNCHANGED observed
          /\ IF confirmError.message = NoMessage
             THEN \* confirmError.message.includes throws inside the handler
                  Return(EvmCatch(Err("", mTypeError)))
             ELSE
             IF Includes(confirmError.message, "timeout")
             THEN Return(Spread(Fail("CONFIRMATION_TIMEOUT",
                                     "Transaction sent but confirmation timed out. Check transaction status manually."),
                                [txHash |-> tx.hash]))
             ELSE Return(EvmCatch(confirmError))
  /\ UNCHANGED <<inputs, other, exec, locals>>
  /\ handleMintRespond

\* a transaction object that names the first candidate whichever was sent
SentFirstCandidate(h, limit, price) == [hash |-> h, func |-> 1, gasLimit |-> limit, gasPrice |-> price]
\* the transaction object a submission returns
Sent(h, limit, price) == [hash |-> h, func |-> func, gasLimit |-> limit, gasPrice |-> price]

(***************************************************************************)
(* mintBASE                                                                *)
(***************************************************************************)
\* await contract[func.name].estimateGas(...func.args)
mintBASE_estimateGas ==
  /\ exec = "BASE"
  /\ pc = "estimate"
  /\ \E ok \in BOOLEAN :
       /\ calls' = Append(calls, Call("estimateGas", func, ok))
       /\ IF ok
          THEN /\ pc' = "send"
               /\ UNCHANGED <<func, result>>
          ELSE \* catch (gasError): continue, lastError is not set
               \E gasError \in GasErrors : Continue("BASE", lastError)
  /\ UNCHANGED <<inputs, other, observed, exec, attempt, response, rpcUrl, provider, gasPrice,
                 gasEstimate, tx, lastError, sendErrors>>
  /\ handleMintRespond

\* tx = await contract[func.name](...func.args, { gasLimit, gasPrice })
mintBASE_send ==
  /\ exec = "BASE"
  /\ pc = "send"
  /\ \/ \E h \in NetHashes :
          /\ calls' = Append(calls, Call("send", func, TRUE))
          /\ tx' = Sent(h, gasLimitBASE, gasPriceBASE)
          /\ pc' = "wait"
          /\ UNCHANGED <<func, result, lastError, sendErrors>>
     \/ \E funcError \in SendErrors :
          /\ calls' = Append(calls, Call("send", func, FALSE))
          /\ lastError' = funcError
          /\ sendErrors' = sendErrors \cup {funcError.message}
          /\ Continue("BASE", funcError)
          /\ UNCHANGED tx
  /\ UNCHANGED <<inputs, other, observed, exec, attempt, response, rpcUrl, provider, gasPrice,
                 gasEstimate>>
  /\ handleMintRespond

(***************************************************************************)
(* mintBSC                                                                 *)
(***************************************************************************)
\* await provider.getFeeData()
mintBSC_getFeeData ==
  /\ exec = "BSC"
  /\ pc = "feeData"
  /\ \/ \E price \in FeeDataGasPrices :
          /\ calls' = Append(calls, Call("getFeeData", provider, TRUE))
          /\ gasPrice' = IF price # 0 THEN price ELSE gasPriceFallbackBSC
     \/ /\ calls' = Append(calls, Call("getFeeData", provider, FALSE))
        /\ gasPrice' = gasPriceFallbackBSC
  /\ func' = 1
  /\ pc' = "estimate"
  /\ UNCHANGED <<inputs, other, observed, exec, result, attempt, response, rpcUrl, provider,
                 gasEstimate, tx, lastError, sendErrors>>
  /\ handleMintRespond

\* await contract[func.name].estimateGas(...func.args)
mintBSC_estimateGas ==
  /\ exec = "BSC"
  /\ pc = "estimate"
  /\ \/ \E estimate \in GasEstimates :
          /\ calls' = Append(calls, Call("estimateGas", func, TRUE))
          /\ gasEstimate' = estimate
          /\ pc' = "send"
     \/ \* catch (gasError): the fixed gas limit is tried
        /\ \E gasError \in GasErrors :
             calls' = Append(calls, Call("estimateGas", func, FALSE))
        /\ pc' = "sendFixed"
        /\ UNCHANGED gasEstimate
  /\ UNCHANGED <<inputs, other, observed, exec, result, attempt, response, rpcUrl, provider, func,
                 gasPrice, tx, lastError, sendErrors>>
  /\ handleMintRespond

\* tx = await contract[func.name](...func.args, { gasLimit: gasEstimate +
\* BigInt(50000), gasPrice }); an error is caught by catch (gasError)
mintBSC_send ==
  /\ exec = "BSC"
  /\ pc = "send"
  /\ \/ \E h \in NetHashes :
          /\ calls' = Append(calls, Call("send", func, TRUE))
          /\ tx' = Sent(h, gasEstimate + gasBufferBSC, gasPrice)
          /\ pc' = "wait"
          /\ UNCHANGED sendErrors
     \/ \E gasError \in SendErrors :
          /\ calls' = Append(calls, Call("send", func, FALSE))
          /\ sendErrors' = sendErrors \cup {gasError.message}
          /\ pc' = "sendFixed"
          /\ UNCHANGED tx
  /\ gasEstimate' = 0  \* the const of the try block goes out of scope
  /\ UNCHANGED <<inputs, other, observed, exec, result, attempt, response, rpcUrl, provider, func,
                 gasPrice, lastError>>
  /\ handleMintRespond

\* tx = await contract[func.name](...func.args, { gasLimit: 300000, gasPrice })
mintBSC_sendFixed ==
  /\ exec = "BSC"
  /\ pc = "sendFixed"
  /\ \/ \E h \in NetHashes :
          /\ calls' = Append(calls, Call("sendFixed", func, TRUE))
          /\ tx' = Sent(h, gasLimitFixedBSC, gasPrice)
          /\ pc' = "wait"
          /\ UNCHANGED <<func, result, lastError, sendErrors>>
     \/ \E fixedGasError \in SendErrors :
          /\ calls' = Append(calls, Call("sendFixed", func, FALSE))
          /\ lastError' = fixedGasError
          /\ sendErrors' = sendErrors \cup {fixedGasError.message}
          /\ Continue("BSC", fixedGasError)
          /\ UNCHANGED tx
  /\ UNCHANGED <<inputs, other, observed, exec, attempt, response, rpcUrl, provider, gasPrice,
                 gasEstimate>>
  /\ handleMintRespond

(***************************************************************************)
(* services/mintSOL.js                                                     *)
(***************************************************************************)
rpcUrlsSOL == 4
\* 0.01 SOL, in units of 0.0001 of the coin
minBalanceSOL == 100

\* input validation of mintSOL
SolValidate(r) ==
  CASE ~Truthy(r.privateKey) ->
         Fail("MISSING_PRIVATE_KEY", "Private key is required")
    [] ~Truthy(r.contractAddress) ->
         Fail("MISSING_CONTRACT_ADDRESS", "Contract address (Mint Address) is required")
    [] ~Truthy(r.mintQuantity) \/ LessThan(r.mintQuantity, 1) ->
         Fail("INVALID_QUANTITY", "Mint quantity must be at least 1")
    [] OTHER -> NoResult

\* the keypair and the mint public key are built from the request; NoResult
\* when both are
SolKeypair(r) ==
  LET k == r.privateKey
      bracketed == k.s = "array"
      decodeThrows == ~bracketed /\ k.length # 128 /\ k.length = 88 /\ k.s = "junk"
  IN CASE ~bracketed /\ k.length # 128 /\ k.length # 88 ->
            Fail("INVALID_PRIVATE_KEY_FORMAT", "Invalid private key format. Use base58, hex, or array format.")
       [] decodeThrows ->
            Fail("INVALID_PRIVATE_KEY", "Invalid private key format or corrupted key")
       [] k.bytes # 64 ->
            Fail("INVALID_PRIVATE_KEY_LENGTH", "Private key must be 64 bytes long")
       [] ~isPublicKey(r.contractAddress) ->
            Fail("INVALID_ADDRESS_FORMAT", "Invalid Solana contract address format")
       [] OTHER -> NoResult

sBlockhash == "blockhash not found"

\* catch (transactionError)
SolTransactionError(transactionError) ==
  LET errorMsg == transactionError.message
  IN CASE Includes(errorMsg, "insufficient funds") ->
            Fail("INSUFFICIENT_FUNDS", "Insufficient SOL for transaction fees")
       [] Includes(errorMsg, "custom program error: 0x1") ->
            Fail("MINT_INSUFFICIENT_FUNDS", "Insufficient funds in mint account")
       [] Includes(errorMsg, "custom program error: 0x0") ->
            Fail("MINT_AUTHORITY_ERROR", "Mint authority error - you don't have permission to mint")
       [] Includes(errorMsg, "InvalidAccountData") ->
            Fail("INVALID_ACCOUNT_DATA", "Invalid account data - contract address may be incorrect")
       [] Includes(errorMsg, "AccountNotFound") ->
            Fail("ACCOUNT_NOT_FOUND", "Account not found - invalid contract address")
       [] Includes(errorMsg, "timeout") ->
            Fail("TRANSACTION_TIMEOUT", "Transaction timed out. It may still be processing.")
       [] Includes(errorMsg, "blockhash not found") ->
            Fail("BLOCKHASH_EXPIRED", "Transaction expired. Please try again.")
       [] OTHER ->
            WithDetails(Fail("TRANSACTION_ERROR", "Solana transaction failed. Please verify contract address and try again."),
                        errorMsg)

\* errors the RPC calls of the transaction block throw
SolErrors == {Err("", m) : m \in {mFunds, mOther, mNetTo, sBlockhash}}

\* from the call of mintSOL to the first liveness probe
mintSOL_invoke ==
  /\ exec = "SOL"
  /\ pc = "invoke"
  /\ IF SolValidate(req) # NoResult
     THEN /\ Return(SolValidate(req))
          /\ UNCHANGED rpcUrl
     ELSE /\ rpcUrl' = 1
          /\ pc' = "probe"
          /\ UNCHANGED result
  /\ UNCHANGED <<inputs, other, observed, exec, calls, attempt, response, provider, func, gasPrice,
                 gasEstimate, tx, lastError, sendErrors>>
  /\ handleMintRespond

\* await connection.getVersion(); on success the keypair and the mint public
\* key are built and the balance query issued
mintSOL_probe ==
  /\ exec = "SOL"
  /\ pc = "probe"
  /\ \E ok \in BOOLEAN :
       /\ calls' = Append(calls, Call("getVersion", rpcUrl, ok))
       /\ IF ok
          THEN /\ provider' = rpcUrl
               /\ UNCHANGED rpcUrl
               /\ IF SolKeypair(req) # NoResult
                  THEN Return(SolKeypair(req))
                  ELSE /\ pc' = "balance"
                       /\ UNCHANGED result
          ELSE /\ UNCHANGED provider
               /\ IF LastEndpoint(rpcUrlsSOL)
                  THEN /\ Return(Fail("RPC_CONNECTION_FAILED",
                                      "Unable to connect to Solana network. All RPC endpoints are down."))
                       /\ UNCHANGED rpcUrl
                  ELSE /\ rpcUrl' = NextEndpoint(rpcUrl)
                       /\ UNCHANGED <<pc, result>>
  /\ UNCHANGED <<inputs, other, observed, exec, attempt, response, func, gasPrice, gasEstimate, tx,
                 lastError, sendErrors>>
  /\ handleMintRespond

\* await connection.getBalance(keypair.publicKey)
mintSOL_balance ==
  /\ exec = "SOL"
  /\ pc = "balance"
  /\ \/ /\ calls' = Append(calls, Call("getBalance", provider, FALSE))
        /\ Return(Fail("BALANCE_CHECK_FAILED", "Failed to check wallet balance"))
     \/ \E balance \in Balances("SOL") :
          /\ calls' = Append(calls, Call("getBalance", balance, TRUE))
          /\ IF balance < minBalanceSOL
             THEN Return(Fail("INSUFFICIENT_BALANCE", "Insufficient SOL balance"))
             ELSE /\ pc' = "mintInfo"
                  /\ UNCHANGED result
  /\ UNCHANGED <<inputs, other, observed, exec, locals>>
  /\ handleMintRespond

\* await connection.getAccountInfo(mintPublicKey)
mintSOL_mintInfo ==
  /\ exec = "SOL"
  /\ pc = "mintInfo"
  /\ \/ /\ calls' = Append(calls, Call("getAccountInfo", 1, FALSE))
        /\ Return(Fail("MINT_VERIFICATION_FAILED", "Failed to verify mint account"))
        /\ UNCHANGED observed
     \/ \E mintInfo \in {"null", "otherOwner", "tokenProgram"} :
          /\ calls' = Append(calls, Call("getAccountInfo", 1, TRUE))
          /\ observed' = [observed EXCEPT !.target =
                            CASE mintInfo = "null" -> "absent"
                              [] mintInfo = "otherOwner" -> "foreign"
                              [] OTHER -> "present"]
          /\ CASE mintInfo = "null" ->
                    Return(Fail("MINT_NOT_FOUND", "Mint account not found. Invalid contract address."))
               [] mintInfo = "otherOwner" ->
                    Return(Fail("INVALID_MINT_ACCOUNT", "Provided address is not a valid SPL token mint"))
               [] OTHER ->
                    /\ pc' = "accountInfo"
                    /\ UNCHANGED result
  /\ UNCHANGED <<inputs, other, exec, locals>>
  /\ handleMintRespond

\* a call of the transaction block throws: catch (transactionError)
SolThrows(op, i) ==
  \E transactionError \in SolErrors :
    /\ calls' = Append(calls, Call(op, i, FALSE))
    /\ Return(SolTransactionError(transactionError))
    /\ sendErrors' = IF op = "send" THEN sendErrors \cup {transactionError.message}
                                    ELSE sendErrors

\* await connection.getAccountInfo(associatedTokenAccount)
mintSOL_accountInfo ==
  /\ exec = "SOL"
  /\ pc = "accountInfo"
  /\ \/ SolThrows("getAccountInfo", 2)
     \/ /\ calls' = Append(calls, Call("getAccountInfo", 2, TRUE))
        /\ pc' = "blockhash"
        /\ UNCHANGED <<result, sendErrors>>
  /\ UNCHANGED <<inputs, other, observed, exec, attempt, response, rpcUrl, provider, func, gasPrice,
                 gasEstimate, tx, lastError>>
  /\ handleMintRespond

\* await connection.getLatestBlockhash('confirmed')
mintSOL_getLatestBlockhash ==
  /\ exec = "SOL"
  /\ pc = "blockhash"
  /\ \/ SolThrows("getLatestBlockhash", 0)
     \/ /\ calls' = Append(calls, Call("getLatestBlockhash", 0, TRUE))
        /\ pc' = "send"
        /\ UNCHANGED <<result, sendErrors>>
  /\ UNCHANGED <<inputs, other, observed, exec, attempt, response, rpcUrl, provider, func, gasPrice,
                 gasEstimate, tx, lastError>>
  /\ handleMintRespond

\* signature = await connection.sendRawTransaction(...)
mintSOL_send ==
  /\ exec = "SOL"
  /\ pc = "send"
  /\ \/ /\ SolThrows("send", 0)
        /\ UNCHANGED tx
     \/ \E signature \in NetHashes :
          /\ calls' = Append(calls, Call("send", 0, TRUE))
          /\ tx' = Sent(signature, 0, 0)
          /\ pc' = "wait"
          /\ UNCHANGED <<result, sendErrors>>
  /\ UNCHANGED <<inputs, other, observed, exec, attempt, response, rpcUrl, provider, func, gasPrice,
                 gasEstimate, lastError>>
  /\ handleMintRespond

\* await Promise.race([connection.confirmTransaction(...), timeout])
mintSOL_wait ==
  /\ exec = "SOL"
  /\ pc = "wait"
  /\ \/ \E err \in {"null", "InstructionError"} :
          /\ calls' = Append(calls, Call("wait", 0, TRUE))
          /\ observed' = [observed EXCEPT !.status =
                            IF err # "null" THEN "failed" ELSE "ok"]
          /\ IF err # "null"
             THEN Return(Spread(Fail("TRANSACTION_FAILED", "Transaction failed"),
                                [signature |-> tx.hash]))
             ELSE Return([success |-> TRUE, txHash |-> tx.hash,
                          associatedTokenAccount |-> "ata"])
          /\ UNCHANGED sendErrors
     \/ \* the 300000 ms timer rejects first
        /\ calls' = Append(calls, Call("waitTimeout", 0, FALSE))
        /\ Return(SolTransactionError(Err("", mTimer)))
        /\ UNCHANGED <<sendErrors, observed>>
     \/ /\ SolThrows("wait", 0)
        /\ UNCHANGED observed
  /\ UNCHANGED <<inputs, other, exec, attempt, response, rpcUrl, provider, func, gasPrice,
                 gasEstimate, tx, lastError>>
  /\ handleMintRespond

(***************************************************************************)
(* The plain executors.  The repository also has a mintSUI and a mintBSC   *)
(* without input checks and without try/catch: a failure of one of their   *)
(* calls rejects the promise that handleMint awaits.                       *)
(***************************************************************************)
\* messages of the errors the constructors and axios raise
mBadKey == "invalid private key"
mBadTarget == "invalid value for Contract target"
mStatus == "Request failed with status code"

\* mintSUI: await axios.post(...) and the digest read with ?.
plainSUI_post ==
  /\ exec = "SUI"
  /\ pc = "invoke"
  /\ \/ \E r \in SuiResponses :
          /\ calls' = Append(calls, Call("axios.post", 1, r.status = 200))
          /\ Return(IF r.status # 200 THEN Thrown(mStatus)
                    ELSE [txHash |-> IF r.data.truthy /\ r.data.hasMintNFT
                                     THEN r.data.transactionBlockDigest
                                     ELSE NoHash])
     \/ \E networkError \in SuiErrors :
          /\ calls' = Append(calls, Call("axios.post", 1, FALSE))
          /\ Return(Thrown(networkError.message))
  /\ UNCHANGED <<inputs, other, observed, exec, locals>>
  /\ handleMintRespond

\* mintBSC: the provider, the wallet, the contract and
\* await contract.mint(mintQuantity)
plainBSC_mint ==
  /\ exec = "BSC"
  /\ pc = "invoke"
  /\ IF req.privateKey = Undefined \/ ~isWalletKey(req.privateKey)
     THEN /\ Return(Thrown(mBadKey))
          /\ UNCHANGED <<calls, tx>>
     ELSE IF req.contractAddress = Undefined
     THEN /\ Return(Thrown(mBadTarget))
          /\ UNCHANGED <<calls, tx>>
     ELSE \/ /\ isAddress(req.contractAddress)
             /\ \E h \in NetHashes :
                  /\ calls' = Append(calls, Call("send", 1, TRUE))
                  /\ tx' = [hash |-> h, func |-> 1, gasLimit |-> 0, gasPrice |-> 0]
                  /\ pc' = "plainWait"
                  /\ UNCHANGED result
          \/ \E e \in SendErrors :
               /\ calls' = Append(calls, Call("send", 1, FALSE))
               /\ Return(Thrown(e.message))
               /\ UNCHANGED tx
  /\ UNCHANGED <<inputs, other, observed, exec, attempt, response, rpcUrl, provider, func,
                 gasPrice, gasEstimate, lastError, sendErrors>>
  /\ handleMintRespond

\* mintBSC: await tx.wait() and the return
plainBSC_wait ==
  /\ exec = "BSC"
  /\ pc = "plainWait"
  /\ \/ /\ calls' = Append(calls, Call("wait", 1, TRUE))
        /\ Return([txHash |-> tx.hash])
     \/ \E e \in {w \in WaitErrors : w.message # NoMessage} :
          /\ calls' = Append(calls, Call("wait", 1, FALSE))
          /\ Return(Thrown(e.message))
  /\ UNCHANGED <<inputs, other, observed, exec, locals>>
  /\ handleMintRespond

(***************************************************************************)
(* Specification.                                                          *)
(***************************************************************************)
Next ==
  \/ handleMint
  \/ Invoke
  \/ mintSUI_validate
  \/ mintSUI_response
  \/ mintSUI_networkError
  \/ mintSUI_backoff
  \/ EvmInvoke
  \/ EvmProbe
  \/ EvmBalance
  \/ EvmGetCode
  \/ mintBASE_estimateGas
  \/ mintBASE_send
  \/ mintBSC_getFeeData
  \/ mintBSC_estimateGas
  \/ mintBSC_send
  \/ mintBSC_sendFixed
  \/ EvmWait
  \/ mintSOL_invoke
  \/ mintSOL_probe
  \/ mintSOL_balance
  \/ mintSOL_mintInfo
  \/ mintSOL_accountInfo
  \/ mintSOL_getLatestBlockhash
  \/ mintSOL_send
  \/ mintSOL_wait

Spec == Init /\ [][Next]_vars

\* handleMint with the plain executors
InitPlain ==
  /\ Init
  /\ entry = "http"
  /\ Target(chain) \in {"SUI", "BSC"}

NextPlain ==
  \/ handleMint
  \/ plainSUI_post
  \/ plainBSC_mint
  \/ plainBSC_wait

SpecPlain == InitPlain /\ [][NextPlain]_vars

(***************************************************************************)
(* Two invocations in one process.  Node runs one invocation at a time and *)
(* changes to another only where the running one awaits; what an async     *)
(* function keeps across an await are its parameters and its let and const *)
(* locals, and neither mintBASE nor mintBSC has a variable at module level.*)
(***************************************************************************)
\* the most network calls an invocation issues in the interleaved runs
MaxCalls == 6

\* the state of the running invocation: the request, the response object
\* and the locals of handleMint and of the executor
Cur ==
  [entry |-> entry, chain |-> chain, req |-> req, exec |-> exec, pc |-> pc,
   calls |-> calls, result |-> result, http |-> http, attempt |-> attempt,
   response |-> response, rpcUrl |-> rpcUrl, provider |-> provider,
   func |-> func, gasPrice |-> gasPrice, gasEstimate |-> gasEstimate,
   tx |-> tx, lastError |-> lastError, sendErrors |-> sendErrors,
   observed |-> observed]

\* a second request for the same executor
Requested(c, r) ==
  [entry |-> "http", chain |-> c, req |-> r, exec |-> "none", pc |-> "start",
   calls |-> <<>>, result |-> NoResult, http |-> NoResponse, attempt |-> 0,
   response |-> NoResponse, rpcUrl |-> 0, provider |-> 0, func |-> 0,
   gasPrice |-> 0, gasEstimate |-> 0, tx |-> NoTx, lastError |-> NoError,
   sendErrors |-> {}, observed |-> NotObserved]

\* two requests for mintBASE, or two for mintBSC, with usable fields
InitInterleaved ==
  /\ entry = "http"
  /\ chain \in {Str("base"), Str("BSC")}
  /\ req \in {r \in Requests(Target(chain)) :
                /\ r.privateKey = kEvm
                /\ r.contractAddress = aEvm
                /\ r.mintQuantity = Num(1)}
  /\ env = FullEnv
  /\ exec = "none"
  /\ pc = "start"
  /\ calls = <<>>
  /\ result = NoResult
  /\ http = NoResponse
  /\ attempt = 0
  /\ response = NoResponse
  /\ rpcUrl = 0
  /\ provider = 0
  /\ func = 0
  /\ gasPrice = 0
  /\ gasEstimate = 0
  /\ tx = NoTx
  /\ lastError = NoError
  /\ sendErrors = {}
  /\ other = Requested(chain, req)
  /\ observed = NotObserved

\* a switch in which the transaction is kept by the module, not by the
\* invocation
SwitchSharedTx ==
  /\ pc # "invoke"
  /\ other' = Cur
  /\ entry' = other.entry
  /\ chain' = other.chain
  /\ req' = other.req
  /\ exec' = other.exec
  /\ pc' = other.pc
  /\ calls' = other.calls
  /\ result' = other.result
  /\ http' = other.http
  /\ attempt' = other.attempt
  /\ response' = other.response
  /\ rpcUrl' = other.rpcUrl
  /\ provider' = other.provider
  /\ func' = other.func
  /\ gasPrice' = other.gasPrice
  /\ gasEstimate' = other.gasEstimate
  /\ lastError' = other.lastError
  /\ sendErrors' = other.sendErrors
  /\ observed' = other.observed
  /\ UNCHANGED <<env, tx>>

\* the running invocation is suspended at its await, or has finished, and
\* the other invocation goes on with its own parameters and locals; the
\* call of the executor by handleMint runs up to the first await of the
\* executor, so there is no switch between the two
Switch ==
  /\ pc # "invoke"
  /\ other' = Cur
  /\ entry' = other.entry
  /\ chain' = other.chain
  /\ req' = other.req
  /\ exec' = other.exec
  /\ pc' = other.pc
  /\ calls' = other.calls
  /\ result' = other.result
  /\ http' = other.http
  /\ attempt' = other.attempt
  /\ response' = other.response
  /\ rpcUrl' = other.rpcUrl
  /\ provider' = other.provider
  /\ func' = other.func
  /\ gasPrice' = other.gasPrice
  /\ gasEstimate' = other.gasEstimate
  /\ tx' = other.tx
  /\ lastError' = other.lastError
  /\ sendErrors' = other.sendErrors
  /\ observed' = other.observed
  /\ UNCHANGED env

\* the running invocation has issued fewer than MaxCalls calls
Within == Len(calls) < MaxCalls

\* a step of the running invocation, or a switch to the other one
NextInterleaved ==
  \/ Within /\ handleMint
  \/ Within /\ EvmInvoke
  \/ Within /\ EvmProbe
  \/ Within /\ EvmBalance
  \/ Within /\ EvmGetCode
  \/ Within /\ mintBASE_estimateGas
  \/ Within /\ mintBASE_send
  \/ Within /\ mintBSC_getFeeData
  \/ Within /\ mintBSC_estimateGas
  \/ Within /\ mintBSC_send
  \/ Within /\ mintBSC_sendFixed
  \/ Within /\ EvmWait
  \/ Switch

SpecInterleaved == InitInterleaved /\ [][NextInterleaved]_vars

(***************************************************************************)
(* Properties.                                                             *)
(***************************************************************************)
\* an executor was called and has returned
Returned == exec \in Executors /\ pc = "done"

Has(r, f) == f \in DOMAIN r

\* some call with one of the operations ops was issued
Issued(ops) == \E i \in 1..Len(calls) : calls[i].op \in ops

\* the last call that was issued has operation op
LastCall(op) == Len(calls) > 0 /\ calls[Len(calls)].op = op

\* C1: every result an executor returns either has success true and a
\* transaction identifier txHash, or has success false and a code
C1_ResultShape ==
  Returned =>
    \/ result.success /\ Has(result, "txHash") /\ result.txHash # NoHash
    \/ ~result.success /\ Has(result, "code")

\* a field the executor requires is missing from the request
MissingField ==
  \/ req.privateKey = Undefined
  \/ req.mintQuantity = Undefined
  \/ exec = "SUI" /\ (req.collectionId = Undefined \/ req.mintStage = Undefined)
  \/ exec \in {"BASE", "BSC", "SOL"} /\ req.contractAddress = Undefined

MissingFieldCodes ==
  {"MISSING_PRIVATE_KEY", "MISSING_COLLECTION_ID", "MISSING_MINT_STAGE",
   "MISSING_CONTRACT_ADDRESS", "INVALID_QUANTITY"}

\* C2: an executor called with a required field missing issues no network
\* call and returns success false with a validation code
C2_MissingField ==
  exec \in Executors /\ MissingField =>
    /\ Len(NetworkCalls) = 0
    /\ pc = "done" => ~result.success /\ Has(result, "code")
                      /\ result.code \in MissingFieldCodes

C2_Witness ==
  /\ Returned /\ exec = "BSC"
  /\ req.privateKey # Undefined /\ req.contractAddress # Undefined
  /\ req.mintQuantity = Undefined
  /\ result.code = "INVALID_QUANTITY"

\* a quantity that is not a number, or is a number that is zero or negative
BadQuantity(q) == ToNumber(q).nan \/ ToNumber(q).v <= 0

\* C3: an executor called with a mint quantity that is zero, negative or not
\* a number issues no network call and returns a failure
C3_BadQuantity ==
  exec \in Executors /\ BadQuantity(req.mintQuantity) =>
    /\ Len(NetworkCalls) = 0
    /\ pc = "done" => ~result.success

\* the number of endpoints each executor has
EndpointCount(e) ==
  CASE e = "BASE" -> 3
    [] e = "BSC"  -> 4
    [] e = "SOL"  -> 4

Probes == SelectSeq(calls, LAMBDA c : c.op \in {"getNetwork", "getVersion"})

\* every endpoint of the executor was probed and every probe failed
AllEndpointsFailed ==
  /\ exec \in {"BASE", "BSC", "SOL"}
  /\ Len(Probes) = EndpointCount(exec)
  /\ \A i \in 1..Len(Probes) : ~Probes[i].ok

\* C4: when every endpoint of mintBASE, mintBSC or mintSOL fails its probe
\* the result is RPC_CONNECTION_FAILED, and no balance query, gas estimation
\* or submission is issued
C4_RpcConnectionFailed ==
  AllEndpointsFailed =>
    /\ pc = "done"
    /\ ~result.success /\ result.code = "RPC_CONNECTION_FAILED"
    /\ ~Issued({"getBalance", "estimateGas", "send", "sendFixed"})

C4_Witness ==
  AllEndpointsFailed /\ exec = "SOL" /\ result.code = "RPC_CONNECTION_FAILED"

\* 0.001 ETH, 0.005 BNB and 0.01 SOL, in units of 0.0001 of the coin
StatedMinimum(e) ==
  CASE e = "BASE" -> 10
    [] e = "BSC"  -> 50
    [] e = "SOL"  -> 100

\* the balance query answered with a balance below the minimum
BalanceBelowMinimum ==
  /\ exec \in {"BASE", "BSC", "SOL"}
  /\ \E i \in 1..Len(calls) :
       /\ calls[i].op = "getBalance" /\ calls[i].ok
       /\ calls[i].i < StatedMinimum(exec)

\* C5: when the balance is below the minimum of the executor the result is
\* INSUFFICIENT_BALANCE, and no gas estimation or submission is issued
C5_InsufficientBalance ==
  BalanceBelowMinimum =>
    /\ pc = "done"
    /\ ~result.success /\ result.code = "INSUFFICIENT_BALANCE"
    /\ ~Issued({"estimateGas", "send", "sendFixed"})

C5_Witness ==
  /\ BalanceBelowMinimum /\ exec = "BSC"
  /\ LastCall("getBalance") /\ calls[Len(calls)].i = 49
  /\ result.code = "INSUFFICIENT_BALANCE"

\* every submission was refused, each with a message that has the words
\* "insufficient funds"
EverySubmissionLacksFunds ==
  /\ exec \in {"BASE", "BSC", "SOL"}
  /\ tx = NoTx
  /\ sendErrors # {}
  /\ \A m \in sendErrors : "insufficient funds" \in Contains(m)

\* C6: when every submission throws an error whose message contains
\* "insufficient funds", the result has code INSUFFICIENT_FUNDS
C6_InsufficientFunds ==
  Returned /\ EverySubmissionLacksFunds =>
    ~result.success /\ result.code = "INSUFFICIENT_FUNDS"

C6_Witness ==
  /\ Returned /\ EverySubmissionLacksFunds /\ exec = "BSC"
  /\ Len(SelectSeq(calls, LAMBDA c : c.op \in {"send", "sendFixed"})) > 5
  /\ result.code = "INSUFFICIENT_FUNDS"

\* C7: when a transaction was submitted and its confirmation timed out, the
\* result is a timeout failure that carries the hash or the signature the
\* submission returned
C7_TimeoutCarriesHash ==
  Returned /\ exec \in {"BASE", "BSC", "SOL"} /\ LastCall("waitTimeout") =>
    /\ ~result.success
    /\ result.code \in {"CONFIRMATION_TIMEOUT", "TRANSACTION_TIMEOUT"}
    /\ \/ Has(result, "txHash") /\ result.txHash = tx.hash
       \/ Has(result, "signature") /\ result.signature = tx.hash

\* the candidates of mintBASE and mintBSC other than publicMint
IsPublicMint(i) == mintFunctions(exec)[i].name = "publicMint"

\* gas estimation failed for every candidate but publicMint, for which it
\* succeeded, and the transaction that was submitted was confirmed
OnlyPublicMint ==
  /\ exec \in {"BASE", "BSC"}
  /\ \A i \in 1..Len(calls) :
       calls[i].op = "estimateGas" => (calls[i].ok <=> IsPublicMint(calls[i].i))
  /\ LastCall("wait") /\ calls[Len(calls)].ok
  /\ result.success

Submissions == SelectSeq(calls, LAMBDA c : c.op \in {"send", "sendFixed"})

\* C8: when the contract has publicMint only, the one transaction that is
\* submitted calls publicMint and the result has the hash of it
C8_PublicMintOnly ==
  Returned /\ OnlyPublicMint =>
    /\ Len(Submissions) = 1
    /\ IsPublicMint(Submissions[1].i)
    /\ IsPublicMint(tx.func)
    /\ Has(result, "txHash") /\ result.txHash = tx.hash

\* the indexer answered with a finished mint and a digest
IndexerMinted ==
  /\ exec = "SUI" /\ pc = "done"
  /\ response # NoResponse
  /\ response.status < 400
  /\ response.data.truthy /\ Len(response.data.errors) = 0
  /\ response.data.hasMintNFT /\ response.data.success
  /\ response.data.transactionBlockDigest \notin {NoHash, ""}

\* C9: mintSUI, when the indexer reports a finished mint with digest D for a
\* valid request of quantity q, returns success true, code MINT_SUCCESS,
\* transactionHash D and quantity q
C9_SuiSuccess ==
  IndexerMinted =>
    /\ result.success /\ result.code = "MINT_SUCCESS"
    /\ Has(result, "transactionHash")
    /\ result.transactionHash = response.data.transactionBlockDigest
    /\ result.quantity = req.mintQuantity

C9_Witness ==
  /\ IndexerMinted /\ attempt = 2 /\ req.mintQuantity = Num(100)
  /\ result.transactionHash = "0xBEEF"

\* the chain tag is a string that names none of the four chains
UnsupportedTag ==
  /\ entry = "http"
  /\ chain.t = "string"
  /\ chain.s \notin {"SUI", "sui", "Sui", "BASE", "base", "BSC", "bsc", "SOL", "sol"}

\* C10: handleMint answers a chain tag that names no chain with status 400
\* and msg "Unsupported chain"; no executor is called, no network call made
C10_UnsupportedChain ==
  UnsupportedTag /\ pc # "start" =>
    /\ http.status = 400
    /\ http.body = [success |-> FALSE, msg |-> "Unsupported chain"]
    /\ exec = "none" /\ calls = <<>> /\ result = NoResult

C10_Witness ==
  UnsupportedTag /\ chain.s = "eth" /\ pc = "responded" /\ http.status = 400

\* C11: for a dispatched request whose executor returned R, handleMint
\* answers with status 200 and a body that has the success flag of R and the
\* other fields of R (a field of R that is undefined is not serialised)
C11_DispatchedResult ==
  entry = "http" /\ Returned =>
    /\ http.status = 200
    /\ http.body.success = result.success
    /\ DOMAIN http.body \subseteq DOMAIN result
    /\ \A f \in DOMAIN result :
         IF f = "txHash" /\ result[f] = NoHash
         THEN f \notin DOMAIN http.body
         ELSE f \in DOMAIN http.body /\ http.body[f] = result[f]

C11_Witness ==
  /\ entry = "http" /\ Returned /\ exec = "BSC"
  /\ ~result.success /\ result.code = "INSUFFICIENT_FUNDS"
  /\ http.status = 200 /\ ~http.body.success

\* handleMint has responded
Responded == http # NoResponse

\* C12: when the executor that handleMint called has thrown, handleMint has
\* answered with status 500 and a body with success false that carries the
\* message of the exception, and the handler has ended
C12_ExecutorThrows ==
  pc = "thrown" =>
    /\ http.status = 500
    /\ http.body.success = FALSE
    /\ http.body.msg = "Minting error"
    /\ http.body.error = result.error
    /\ ~ENABLED NextPlain

\* the submission of the plain mintBSC was rejected for lack of funds
C12_Witness ==
  /\ pc = "thrown" /\ exec = "BSC"
  /\ Len(calls) = 1 /\ ~calls[1].ok
  /\ result.error = mFunds
  /\ http.status = 500 /\ http.body.error = mFunds

\* C13: every failure response of handleMint has both a code and a msg
C13_FailureHasCodeAndMsg ==
  Responded /\ ~http.body.success =>
    Has(http.body, "code") /\ Has(http.body, "msg")

\* C14: no executor throws: whatever the request and whichever network call
\* fails, the executor returns a result that has a success flag
C14_NoExceptionCrosses ==
  exec \in Executors =>
    /\ pc # "thrown"
    /\ pc = "done" => Has(result, "success") /\ ~Has(result, "thrown")

\* the handler of the confirmation error raised a TypeError, and the outer
\* catch block turned it into a result
C14_Witness ==
  /\ Returned /\ exec = "BASE"
  /\ LastCall("wait") /\ ~calls[Len(calls)].ok
  /\ result.code = "UNKNOWN_ERROR" /\ result.details = mTypeError

\* the number of indexer requests among the first n calls
RequestsIn(n) == Cardinality({j \in 1..n : calls[j].op = "axios"})

\* C15: mintSUI issues at most 3 requests; a request after the first follows
\* a request that threw and a delay of k seconds after attempt k; no call
\* follows a request that was answered
C15_SuiRetry ==
  exec = "SUI" =>
    /\ RequestsIn(Len(calls)) <= 3
    /\ \A i \in 1..Len(calls) :
         /\ calls[i].op = "axios" /\ calls[i].ok => i = Len(calls)
         /\ calls[i].op = "axios" /\ i > 1 =>
              /\ i >= 3
              /\ calls[i-1].op = "setTimeout"
              /\ calls[i-1].i = 1000 * RequestsIn(i-1)
              /\ calls[i-2].op = "axios" /\ ~calls[i-2].ok

C15_Witness ==
  /\ exec = "SUI" /\ pc = "done"
  /\ RequestsIn(Len(calls)) = 3
  /\ calls[2].i = 1000 /\ calls[4].i = 2000
  /\ calls[5].ok

\* the endpoint or one of the two credentials is not set
NotConfigured ==
  exec = "SUI" /\ ~(env.INDEXER_ENDPOINT /\ env.TRADEPORT_API_USER
                    /\ env.TRADEPORT_API_KEY)

ConfigurationCodes == {"MISSING_INDEXER_ENDPOINT", "MISSING_API_CREDENTIALS"}

\* the codes of the checks of the request fields, made before the
\* configuration is read
SuiFieldCodes ==
  {"MISSING_PRIVATE_KEY", "MISSING_COLLECTION_ID", "MISSING_MINT_STAGE",
   "INVALID_QUANTITY", "QUANTITY_TOO_HIGH", "INVALID_PRIVATE_KEY_LENGTH",
   "INVALID_COLLECTION_ID_FORMAT"}

\* C16 as stated: when the configuration is incomplete mintSUI fails with a
\* configuration code and issues no network request
C16_Stated ==
  NotConfigured =>
    /\ Len(NetworkCalls) = 0
    /\ pc = "done" => ~result.success /\ result.code \in ConfigurationCodes

\* C16: when the configuration is incomplete mintSUI issues no network
\* request and fails; the code is that of a request field check when the
\* request fails one, and else MISSING_INDEXER_ENDPOINT when the endpoint is
\* not set, MISSING_API_CREDENTIALS when only a credential is not set
C16_NotConfigured ==
  NotConfigured =>
    /\ Len(NetworkCalls) = 0
    /\ pc = "done" =>
         /\ ~result.success
         /\ result.code \in SuiFieldCodes \cup ConfigurationCodes
         /\ result.code = "MISSING_INDEXER_ENDPOINT" => ~env.INDEXER_ENDPOINT
         /\ result.code = "MISSING_API_CREDENTIALS" =>
              env.INDEXER_ENDPOINT
         /\ ( /\ req.privateKey \in {kEvm, kSolHex}
              /\ req.collectionId = Str("abc123")
              /\ req.mintStage # Undefined
              /\ req.mintQuantity \in {Num(1), Num(100)} )
            => result.code \in ConfigurationCodes

C16_Witness ==
  /\ NotConfigured /\ pc = "done"
  /\ env.INDEXER_ENDPOINT /\ ~env.TRADEPORT_API_KEY
  /\ result.code = "MISSING_API_CREDENTIALS"

\* the phase a network call belongs to: 2 connecting, 4 prechecking, 5
\* validating the target, 6 submitting, 7 confirming (1, validating, and 3,
\* authenticating, issue no call)
PhaseOf(c) ==
  CASE c.op \in {"getNetwork", "getVersion"} -> 2
    [] c.op = "getBalance" -> 4
    [] c.op = "getCode" -> 5
    [] c.op = "getAccountInfo" -> IF c.i = 1 THEN 5 ELSE 6
    [] c.op \in {"wait", "waitTimeout"} -> 7
    [] OTHER -> 6

\* the phase in which a failure with the given code ends the invocation; the
\* address format is checked with the input by mintBASE and mintBSC, and
\* where the keypair is built by mintSOL
FailedPhase(code) ==
  CASE code \in {"MISSING_PRIVATE_KEY", "MISSING_CONTRACT_ADDRESS",
                 "INVALID_QUANTITY"} -> 1
    [] code = "INVALID_ADDRESS_FORMAT" -> IF exec = "SOL" THEN 3 ELSE 1
    [] code = "RPC_CONNECTION_FAILED" -> 2
    [] code \in {"INVALID_PRIVATE_KEY", "INVALID_PRIVATE_KEY_FORMAT",
                 "INVALID_PRIVATE_KEY_LENGTH"} -> 3
    [] code \in {"INSUFFICIENT_BALANCE", "BALANCE_CHECK_FAILED"} -> 4
    [] code \in {"CONTRACT_NOT_FOUND", "CONTRACT_VERIFICATION_FAILED",
                 "MINT_NOT_FOUND", "INVALID_MINT_ACCOUNT",
                 "MINT_VERIFICATION_FAILED"} -> 5
    [] OTHER -> 7

SubmissionsOf(k) ==
  {i \in 1..Len(calls) : calls[i].op \in {"send", "sendFixed"} /\ calls[i].i = k}

\* C18: mintBASE and mintBSC submit each candidate at most once, and submit
\* nothing after a submission was accepted
C18_CandidateOnce ==
  exec \in {"BASE", "BSC"} =>
    /\ \A k \in 1..Len(mintFunctions(exec)) : Cardinality(SubmissionsOf(k)) <= 1
    /\ \A i, j \in 1..Len(calls) :
         i < j /\ calls[i].op \in {"send", "sendFixed"} /\ calls[i].ok =>
           calls[j].op \notin {"send", "sendFixed"}

\* what an invocation v holds is what its own calls, and no call of another
\* invocation, gave it
OwnState(v) ==
  LET n == Len(v.calls)
      At(ops) == {i \in 1..n : v.calls[i].op \in ops}
      Ok(ops) == {i \in At(ops) : v.calls[i].ok}
      Failed(ops) == At(ops) \ Ok(ops)
      probes == At({"getNetwork"})
      sent == Ok({"send", "sendFixed"})
      loop == At({"estimateGas", "send", "sendFixed", "wait", "waitTimeout"})
  IN /\ v.provider = IF Ok({"getNetwork"}) = {} THEN 0
                      ELSE v.calls[CHOOSE i \in Ok({"getNetwork"}) : TRUE].i
     /\ Cardinality(Ok({"getNetwork"})) <= 1
     /\ v.rpcUrl \in {Cardinality(probes), Cardinality(probes) + 1}
     /\ \A i \in 1..(n - 1) : PhaseOf(v.calls[i]) <= PhaseOf(v.calls[i+1])
     /\ (v.tx # NoTx) <=> (sent # {})
     /\ \A i \in sent :
          /\ i \in {n, n - 1}
          /\ v.tx.func = v.calls[i].i
          /\ v.tx.hash \in NetHashes
          /\ v.calls[i].op = "sendFixed" => v.tx.gasLimit = 300000
     /\ (v.sendErrors = {}) <=> (Failed({"send", "sendFixed"}) = {})
     /\ (v.lastError = NoError) <=>
          (Failed(IF v.exec = "BSC" THEN {"sendFixed"} ELSE {"send"}) = {})
     /\ (v.gasPrice # 0) <=> (At({"getFeeData"}) # {})
     /\ IF loop = {}
        THEN v.func \in {0, 1}
        ELSE v.func - v.calls[n].i \in {0, 1}
     /\ v.pc = "done" /\ v.result.success =>
          /\ n \in Ok({"wait"})
          /\ v.result.txHash \in {v.tx.hash, NoHash}
     /\ (v.http = NoResponse) <=> (v.pc # "done")
     /\ v.pc = "done" => /\ v.http.status = 200
                         /\ v.http.body.success = v.result.success

\* C19: of two interleaved invocations of mintBASE or of mintBSC each holds
\* only what its own network calls gave it, and its calls and its result
\* are those of an invocation that runs alone
C19_NoSharedState == OwnState(Cur) /\ OwnState(other)

\* both invocations are suspended at the confirmation, each with the
\* transaction it submitted
C19_Witness ==
  /\ exec = "BASE" /\ other.exec = "BASE"
  /\ pc = "wait" /\ other.pc = "wait"
  /\ tx.hash = "0xDEAD" /\ other.tx.hash = "0xBEEF"
  /\ tx.func = 1 /\ other.tx.func = 2

\* the executor each spelling of a chain tag names
ExpectedExecutor(s) ==
  CASE s \in {"SUI", "sui", "Sui"} -> "SUI"
    [] s \in {"BASE", "base"}      -> "BASE"
    [] s \in {"BSC", "bsc"}        -> "BSC"
    [] OTHER                       -> "none"

\* C20: handleMint calls the executor that the upper-case form of the tag
\* names, whatever the case of the tag, with the fields other than chain
C20_CaseInsensitive ==
  entry = "http" /\ chain.t = "string" /\ pc # "start" =>
    /\ exec = ExpectedExecutor(chain.s)
    /\ chain.s \in {"SOL", "sol"} =>
         http.body = [success |-> FALSE, msg |-> "SOL mint not yet implemented"]
    /\ exec = "SUI" /\ pc = "done" /\ result.success =>
         result.collectionId = req.collectionId

C20_Witness ==
  /\ entry = "http" /\ chain.t = "string" /\ chain.s = "Sui" /\ exec = "SUI"
  /\ pc = "done" /\ result.success

\* the liveness probes, oldest first
ProbeCalls == SelectSeq(calls, LAMBDA c : c.op \in {"getNetwork", "getVersion"})

\* C21: mintBASE, mintBSC and mintSOL probe the endpoints in list order from
\* the first, before any other call; no endpoint is probed after one
\* answered; the endpoint in use is the one that answered, so it is fixed by
\* the probe outcomes
C21_ProbeOrder ==
  exec \in {"BASE", "BSC", "SOL"} =>
    LET P == ProbeCalls
    IN /\ \A k \in 1..Len(P) : P[k].i = k /\ calls[k] = P[k]
       /\ \A k \in 1..Len(P) : P[k].ok => k = Len(P)
       /\ provider = IF Len(P) > 0 /\ P[Len(P)].ok THEN Len(P) ELSE 0
       /\ Len(calls) > Len(P) => provider # 0
       /\ \A i \in 1..Len(calls) :
            calls[i].op \in {"getCode", "getFeeData"} => calls[i].i = provider

C21_Witness ==
  /\ exec = "SOL" /\ provider = 3
  /\ Len(calls) >= 4
  /\ ~calls[1].ok /\ ~calls[2].ok /\ calls[3].ok
  /\ calls[4].op = "getBalance"

\* the safety margin, the fallback gas limit and the fallback gas price
StatedMargin == 50000
StatedFallbackLimit == 300000
StatedFallbackPrice == 5

\* the gas estimation of candidate k succeeded
Estimated(k) == \E i \in 1..Len(calls) : calls[i] = Call("estimateGas", k, TRUE)

\* C22: a submitted transaction of mintBASE or mintBSC has the gas limit
\* estimate + margin when the estimation of its candidate succeeded and the
\* fallback limit when it failed, and the gas price the network reported, or
\* the fallback price when it reported none
C22_GasBudget ==
  exec \in {"BASE", "BSC"} /\ tx # NoTx =>
    /\ tx.gasLimit \in IF Estimated(tx.func)
                       THEN {e + StatedMargin : e \in GasEstimates}
                       ELSE {StatedFallbackLimit}
    /\ tx.gasPrice \in
         IF \E i \in 1..Len(calls) : calls[i].op = "getFeeData" /\ calls[i].ok
         THEN (FeeDataGasPrices \ {0}) \cup {StatedFallbackPrice}
         ELSE {StatedFallbackPrice}

\* C23: mintBASE and mintBSC submit a candidate only after the gas estimation
\* of that candidate succeeded
C23_EstimateFirst ==
  exec \in {"BASE", "BSC"} =>
    \A i \in 1..Len(calls) :
      calls[i].op \in {"send", "sendFixed"} =>
        \E j \in 1..(i - 1) : calls[j] = Call("estimateGas", calls[i].i, TRUE)

\* the candidate loop ended without a transaction
NoCandidateSent ==
  /\ Returned /\ exec \in {"BASE", "BSC"} /\ tx = NoTx
  /\ Len(calls) > 0
  /\ calls[Len(calls)].op \in {"estimateGas", "send", "sendFixed"}

\* the messages of the errors with which the candidates failed
FailureMessages ==
  sendErrors \cup
  IF \E i \in 1..Len(calls) : calls[i].op = "estimateGas" /\ ~calls[i].ok
  THEN {e.message : e \in GasErrors} ELSE {}

\* C24: when no candidate of mintBASE or mintBSC gave a transaction and every
\* failure has "execution reverted" in its message, the code is
\* TRANSACTION_REVERTED; the generic code carries the raw text
C24_KnownPattern ==
  NoCandidateSent =>
    /\ ( /\ \A m \in FailureMessages : "execution reverted" \in Contains(m)
         /\ \A m \in FailureMessages : "insufficient funds" \notin Contains(m) )
       => result.code = "TRANSACTION_REVERTED"
    /\ result.code = "MINT_FUNCTION_FAILED" => Has(result, "details")

\* a call of the submitting or of the confirming phase was issued
MintAttempted == \E i \in 1..Len(calls) : PhaseOf(calls[i]) >= 6

\* C25: mintBASE, mintBSC and mintSOL attempt the mint only after the target
\* query answered that the target is there and of the expected kind; when it
\* is absent or owned by another program the invocation ends with
\* CONTRACT_NOT_FOUND, MINT_NOT_FOUND or INVALID_MINT_ACCOUNT
C25_TargetFirst ==
  exec \in {"BASE", "BSC", "SOL"} =>
    /\ MintAttempted => observed.target = "present"
    /\ observed.target = "absent" =>
         /\ pc = "done" /\ ~result.success
         /\ result.code = IF exec = "SOL" THEN "MINT_NOT_FOUND" ELSE "CONTRACT_NOT_FOUND"
    /\ observed.target = "foreign" =>
         /\ pc = "done" /\ ~result.success
         /\ result.code = "INVALID_MINT_ACCOUNT"

C25_Witness ==
  /\ exec = "BSC" /\ observed.target = "absent"
  /\ pc = "done" /\ result.code = "CONTRACT_NOT_FOUND"
  /\ LastCall("getCode") /\ calls[Len(calls)].ok

\* the code of the first rule, in the stated order, whose pattern the
\* message has
FirstRule(m) ==
  CASE "insufficient" \in Contains(m) -> "INSUFFICIENT_BALANCE"
    [] "not found" \in Contains(m) -> "COLLECTION_NOT_FOUND"
    [] "unauthorized" \in Contains(m) -> "MINT_UNAUTHORIZED"
    [] Contains(m) \cap {"sold out", "exceeds"} # {} -> "MINT_SOLD_OUT"
    [] "not active" \in Contains(m) -> "MINT_STAGE_INACTIVE"
    [] OTHER -> "GRAPHQL_ERROR"

\* the indexer answered with GraphQL errors
GraphQLErrors ==
  /\ exec = "SUI" /\ pc = "done"
  /\ response.status = 200
  /\ response.data.truthy
  /\ Len(response.data.errors) > 0

\* C26: mintSUI gives a GraphQL error message the code of the first rule it
\* matches, GRAPHQL_ERROR when it matches none, with the message in details
C26_FirstMatch ==
  GraphQLErrors =>
    /\ ~result.success
    /\ result.code = FirstRule(response.data.errors[1].message)
    /\ result.details = response.data.errors[1].message

C26_Witness ==
  /\ GraphQLErrors
  /\ response.data.errors[1].message = gMulti
  /\ result.code = "COLLECTION_NOT_FOUND"

\* C27: for the tag SOL handleMint answers with the fixed "not implemented"
\* failure, calls no executor and issues no network call
C27_SolStub ==
  entry = "http" /\ chain.t = "string" /\ chain.s \in {"SOL", "sol"} /\ pc # "start" =>
    /\ pc = "responded"
    /\ exec = "none"
    /\ calls = <<>>
    /\ result = [success |-> FALSE, msg |-> "SOL mint not yet implemented"]
    /\ http.status = 200
    /\ http.body = [success |-> FALSE, msg |-> "SOL mint not yet implemented"]

C27_Witness ==
  /\ entry = "http" /\ chain = Str("sol") /\ pc = "responded"
  /\ req.privateKey = Undefined /\ req.contractAddress = aBad
  /\ ~http.body.success

\* C28: a request without chain gets status 400 and the "Unsupported chain"
\* failure, and no executor is called
C28_NoChain ==
  entry = "http" /\ chain = Undefined /\ pc # "start" =>
    /\ exec = "none"
    /\ http.status = 400
    /\ http.body = [success |-> FALSE, msg |-> "Unsupported chain"]

\* the submissions that returned a transaction
Accepted ==
  {i \in 1..Len(calls) : calls[i].op \in {"send", "sendFixed"} /\ calls[i].ok}

\* C29: in mintBASE and mintBSC at most one submission returns a transaction;
\* after it nothing is estimated or submitted, and the confirmation that is
\* awaited is that of this transaction
C29_OneTransaction ==
  exec \in {"BASE", "BSC"} =>
    /\ Cardinality(Accepted) <= 1
    /\ (tx # NoTx) <=> (Accepted # {})
    /\ \A i \in Accepted :
         /\ tx.func = calls[i].i
         /\ \A j \in (i + 1)..Len(calls) :
              /\ calls[j].op \in {"wait", "waitTimeout"}
              /\ calls[j].i = tx.func
              /\ j = i + 1

C29_Witness ==
  /\ exec = "BSC" /\ pc = "done" /\ result.success
  /\ tx.func = 2
  /\ calls[Len(calls) - 1] = Call("sendFixed", 2, TRUE)
  /\ calls[Len(calls)] = Call("wait", 2, TRUE)

\* C30: an executor returns success only after a submission was accepted and
\* its confirmation answered without failure: a receipt with a status other
\* than 0, a confirmation without err, or an indexer response with
\* mintNFT.success and a digest
C30_SuccessConfirmed ==
  exec \in Executors =>
    /\ observed.status = "failed" => pc = "done" /\ ~result.success
    /\ pc = "done" /\ result.success =>
         IF exec = "SUI"
         THEN /\ LastCall("axios") /\ calls[Len(calls)].ok
              /\ response.status = 200
              /\ response.data.hasMintNFT /\ response.data.success
              /\ response.data.transactionBlockDigest \in NetHashes
         ELSE /\ observed.status = "ok"
              /\ Len(calls) >= 2
              /\ LastCall("wait") /\ calls[Len(calls)].ok
              /\ calls[Len(calls) - 1].op \in {"send", "sendFixed"}
              /\ calls[Len(calls) - 1].ok
              /\ tx.hash \in NetHashes

C30_Witness ==
  /\ exec = "BASE" /\ pc = "done" /\ result.success
  /\ observed.status = "ok"
  /\ calls[Len(calls)] = Call("wait", 3, TRUE)

(***************************************************************************)
(* Termination.  An awaited call settles: it resolves, rejects, or the     *)
(* timer it is raced against rejects; Node then runs the continuation of   *)
(* the await.  A step that is possible is therefore taken.                 *)
(***************************************************************************)
\* the most calls the log of an invocation holds: one more than the longest
\* run of an executor issues (mintBSC: 4 probes, the balance, the code and the
\* fee queries, 3 calls for each of 5 candidates, and the confirmation wait)
MaxLog == 24

\* the log has room for another call.  An invocation that would go on after
\* MaxLog calls stops there without a result, so that the cut can make
\* termination fail and cannot make it hold
LogHasRoom == Len(calls) < MaxLog

NextFair ==
  \/ LogHasRoom /\ handleMint
  \/ LogHasRoom /\ Invoke
  \/ LogHasRoom /\ mintSUI_validate
  \/ LogHasRoom /\ mintSUI_response
  \/ LogHasRoom /\ mintSUI_networkError
  \/ LogHasRoom /\ mintSUI_backoff
  \/ LogHasRoom /\ EvmInvoke
  \/ LogHasRoom /\ EvmProbe
  \/ LogHasRoom /\ EvmBalance
  \/ LogHasRoom /\ EvmGetCode
  \/ LogHasRoom /\ mintBASE_estimateGas
  \/ LogHasRoom /\ mintBASE_send
  \/ LogHasRoom /\ mintBSC_getFeeData
  \/ LogHasRoom /\ mintBSC_estimateGas
  \/ LogHasRoom /\ mintBSC_send
  \/ LogHasRoom /\ mintBSC_sendFixed
  \/ LogHasRoom /\ EvmWait
  \/ LogHasRoom /\ mintSOL_invoke
  \/ LogHasRoom /\ mintSOL_probe
  \/ LogHasRoom /\ mintSOL_balance
  \/ LogHasRoom /\ mintSOL_mintInfo
  \/ LogHasRoom /\ mintSOL_accountInfo
  \/ LogHasRoom /\ mintSOL_getLatestBlockhash
  \/ LogHasRoom /\ mintSOL_send
  \/ LogHasRoom /\ mintSOL_wait

\* the requests whose quantity is a number or is absent: a quantity that is a
\* string goes the way of a number, since the executors compare it to their
\* limits and then only hand it on
InitFair ==
  /\ Init
  /\ req.mintQuantity.t # "string"

SpecFair == InitFair /\ [][NextFair]_vars /\ WF_vars(NextFair)

\* the executor returned a result: a success or a failure
Settled == pc = "done" /\ "success" \in DOMAIN result

\* C31: every invocation of an executor ends with a result, when each of its
\* network calls settles: the endpoint loop, the candidate loop and the retry
\* loop of mintSUI each end after a bounded number of iterations
C31_Terminates == (pc = "invoke") ~> Settled

\* mintSUI went through its whole retry loop: three requests failed, with a
\* wait after the first and after the second, and it returned a failure
C31_Witness ==
  /\ exec = "SUI" /\ Settled /\ ~result.success
  /\ attempt = maxRetries
  /\ Len(calls) = 5
  /\ calls[5] = Call("axios", 3, FALSE)

====
